---- MODULE Spec2Model ----
(***************************************************************************)
(* Model of the reveal bot of src/index.js: the in-memory match table      *)
(* matchData, the interactionCreate handler (/startmatch, /submit,         *)
(* /reveal), the messageCreate handler and the setTimeout expiry callback. *)
(*                                                                         *)
(* JavaScript runs each handler without interruption up to its next await, *)
(* so every action below is one such segment: the request actions run a    *)
(* handler from its entry to its first await, and every ...Done action     *)
(* resumes one suspended handler with the outcome of the awaited call      *)
(* (ok = TRUE: the promise resolved, ok = FALSE: it rejected) and runs it  *)
(* to its next await or to its end.  The pc of a suspended handler is the  *)
(* line number of the await it is suspended at.                            *)
(***************************************************************************)
EXTENDS Integers, Sequences, FiniteSets, Bags, TLC

\* ---------------------------------------------------------------- bounds
MaxInflight == 2      \* handlers suspended at an await at the same time
MaxDisclosed == 2     \* disclosures followed per thread

\* ---------------------------------------------------------------- inputs
ThreadIds == {1, 2}                 \* ids threads.create hands out, in order
ParentChannel == 0                  \* a channel that never hosts a match
Channels == {ParentChannel} \cup ThreadIds
Users == {1, 2, 3}                  \* user ids
Starters == {1}                     \* who runs /startmatch
Opponents == {1, 2}                 \* the 'opponent' option of /startmatch
null == "<null>"                    \* JavaScript null: no string a user can submit
Choices == {"", "X", "Y"}           \* submitted strings
CmdChoices == {"X", "Y"}            \* a required string option is never empty
Revealers == {1, 3}                 \* who runs /reveal: the starter, and a user of no match

VARIABLES
  matchData,   \* the Map of line 15: a function from thread id to record
  timer,       \* per thread id: "none", "armed" (setTimeout pending), "fired"
  alive,       \* thread ids whose thread exists on the platform
  nthreads,    \* number of threads created so far
  inflight,    \* bag of handlers suspended at an await
  disclosed,   \* per thread id: how many reveal embeds were sent to the channel, and the last one
  lastSub,     \* history: per thread id and user, the last value accepted
  removedBy,   \* history: per thread id, the handler whose delete removed the record
  cap,         \* the load followed: threads created, handlers suspended at once
  uncaught     \* a handler's promise rejected with nothing to catch it

vars == <<matchData, timer, alive, nthreads, inflight, disclosed, lastSub, removedBy, cap, uncaught>>

\* ------------------------------------------------------- Map operations
MapHas(m, k) == k \in DOMAIN m

MapSet(m, k, v) == [x \in (DOMAIN m) \cup {k} |-> IF x = k THEN v ELSE m[x]]

\* a delete that empties the table
MapClear(m, k) == << >>

MapDelete(m, k) == [x \in (DOMAIN m) \ {k} |-> m[x]]

\* a truthiness that takes null for a value
TruthyNonEmpty(v) == v # ""

\* JavaScript truthiness of a slot: null and the empty string are falsy
Truthy(v) == v # null /\ v # ""

\* ------------------------------------------------- suspended handlers
Handler(kind, pc, ch, ids, embed, want, deferred) ==
  [kind |-> kind, pc |-> pc, ch |-> ch, ids |-> ids, embed |-> embed,
   want |-> want, deferred |-> deferred]

\* an interaction handler suspended at a reply it issued at line pc, holding no locals
Reply(pc, ch) == Handler("interaction", pc, ch, << >>, << >>, << >>, FALSE)

Suspend(h) == inflight (+) SetToBag({h})

Resume(h) == inflight (-) SetToBag({h})

Replace(h, g) == (inflight (-) SetToBag({h})) (+) SetToBag({g})

Suspended == BagToSet(inflight)

\* the replies a handler returns without awaiting them inside the try block
\* (lines 76, 86, 100, 125, 128, 136, 143, 146): the handler's promise settles
\* as the reply does, and the catch of line 161 does not see a rejection
ReturnedPcs == {76, 86, 100, 125, 128, 136, 143, 146}

\* a handler whose last call is pending: a returned reply, or the failure notice of
\* the outer catch (lines 166, 168); it touches no state when the call settles
Finishing(h) == h.kind = "interaction" /\ h.pc \in ReturnedPcs \cup {166, 168}

Working == {h \in Suspended : ~Finishing(h)}

\* Node ends the process on an unhandled promise rejection (the source installs no
\* 'unhandledRejection' listener): handlers run as long as none occurred
Running == ~uncaught

\* The load followed: a new request or timer callback is handled when the last call
\* of every earlier handler has settled and fewer than cap.inflight handlers are
\* suspended in the middle of their work.
CanSuspend ==
  /\ Working = Suspended
  /\ BagCardinality(inflight) < cap.inflight

NoIds == << >>

NoEmbed == << >>

Init ==
  /\ matchData = << >>
  /\ timer = [t \in ThreadIds |-> "none"]
  /\ alive = {}
  /\ nthreads = 0
  /\ inflight = EmptyBag
  /\ disclosed = [t \in ThreadIds |-> [n |-> 0, embed |-> NoEmbed, want |-> NoEmbed]]
  /\ lastSub = [t \in ThreadIds |-> [u \in Users |-> null]]
  /\ removedBy = [t \in ThreadIds |-> "none"]
  /\ cap = [threads |-> 1, inflight |-> MaxInflight]
  /\ uncaught = FALSE

\* The outer catch of the interaction handler (lines 161-172): the failure notice
\* is sent with editReply when the interaction was deferred, with reply otherwise.
CatchPc(h) == IF h.deferred THEN 166 ELSE 168

\* the catch block reads none of the handler's locals
ToCatch(h) == [h EXCEPT !.pc = CatchPc(h), !.ids = NoIds, !.embed = NoEmbed, !.want = NoEmbed]

\* a request can arrive in the parent channel and in every thread created so far
Reachable(ch) == ch = ParentChannel \/ (ch \in ThreadIds /\ ch <= nthreads)

\* start handlers that have not yet been given their thread
AwaitingThread == {h \in Suspended : h.kind = "interaction" /\ h.pc \in {79, 92}}

ThreadsInUse ==
  nthreads + BagCardinality([h \in AwaitingThread |-> CopiesIn(h, inflight)])

\* ------------------------------------------------------------ /startmatch
\* lines 70-79: entry of the handler for commandName 'startmatch'
StartMatch(starter, opponent, inGuild) ==
  /\ Running
  /\ CanSuspend
  /\ ThreadsInUse < cap.threads
  /\ IF ~inGuild
       THEN /\ inflight' = Suspend(Reply(76, ParentChannel))
       ELSE /\ inflight' = Suspend(Handler("interaction", 79, ParentChannel, <<starter, opponent>>, NoEmbed, NoEmbed, FALSE))
  /\ UNCHANGED <<matchData, timer, alive, nthreads, disclosed, lastSub, removedBy, cap, uncaught>>

\* lines 79-92: deferReply settled; channel type check; threads.create issued
DeferReplyDone(h, ok, textChannel) ==
  /\ Running
  /\ h \in Suspended /\ h.kind = "interaction" /\ h.pc = 79
  /\ IF ~ok
       THEN /\ inflight' = Replace(h, ToCatch(h))
       ELSE IF ~textChannel
         THEN /\ inflight' = Replace(h, [h EXCEPT !.pc = 86, !.deferred = TRUE, !.ids = NoIds])
         ELSE /\ inflight' = Replace(h, [h EXCEPT !.pc = 92, !.deferred = TRUE])
  /\ UNCHANGED <<matchData, timer, alive, nthreads, disclosed, lastSub, removedBy, cap, uncaught>>

\* lines 90-104: threads.create settled; members.add(starter) issued
ThreadsCreateDone(h, ok) ==
  /\ Running
  /\ h \in Suspended /\ h.kind = "interaction" /\ h.pc = 92
  /\ IF ~ok
       THEN /\ inflight' = Replace(h, [h EXCEPT !.pc = 100, !.ids = NoIds])
            /\ UNCHANGED <<alive, nthreads>>
       ELSE /\ nthreads + 1 \in ThreadIds
            /\ nthreads' = nthreads + 1
            /\ alive' = alive \cup {nthreads + 1}
            /\ inflight' = Replace(h, [h EXCEPT !.pc = 104, !.ch = nthreads + 1])
  /\ UNCHANGED <<matchData, timer, disclosed, lastSub, removedBy, cap, uncaught>>

\* lines 104-105: members.add(starter) settled (a failure is swallowed)
MembersAddStarterDone(h, ok) ==
  /\ Running
  /\ h \in Suspended /\ h.kind = "interaction" /\ h.pc = 104
  /\ inflight' = Replace(h, [h EXCEPT !.pc = 105])
  /\ UNCHANGED <<matchData, timer, alive, nthreads, disclosed, lastSub, removedBy, cap, uncaught>>

\* line 107: the record a start-match inserts
NewMatch(ids) == [playerA |-> null, playerB |-> null, ids |-> ids]

\* lines 105-109: members.add(opponent) settled (a failure is swallowed);
\* the record is inserted; the confirmation editReply is issued
MembersAddOpponentDone(h, ok) ==
  /\ Running
  /\ h \in Suspended /\ h.kind = "interaction" /\ h.pc = 105
  /\ matchData' = MapSet(matchData, h.ch, NewMatch(h.ids))
  /\ inflight' = Replace(h, [h EXCEPT !.pc = 109, !.ids = NoIds])
  /\ UNCHANGED <<timer, alive, nthreads, disclosed, lastSub, removedBy, cap, uncaught>>

\* lines 109-110: the confirmation editReply settled; the welcome send is issued
EditReplyDone(h, ok) ==
  /\ Running
  /\ h \in Suspended /\ h.kind = "interaction" /\ h.pc = 109
  /\ IF ok
       THEN /\ inflight' = Replace(h, [h EXCEPT !.pc = 110])
       ELSE /\ inflight' = Replace(h, ToCatch(h))
  /\ UNCHANGED <<matchData, timer, alive, nthreads, disclosed, lastSub, removedBy, cap, uncaught>>

\* lines 113-118: setTimeout arms the expiry of the thread
ArmExpiry(t) == [timer EXCEPT ![t] = "armed"]

\* lines 110-119: the welcome send settled; the expiry is armed
ThreadSendDone(h, ok) ==
  /\ Running
  /\ h \in Suspended /\ h.kind = "interaction" /\ h.pc = 110
  /\ ok => h.ch \in alive
  /\ IF ok
       THEN /\ timer' = ArmExpiry(h.ch)
            /\ inflight' = Resume(h)
       ELSE /\ inflight' = Replace(h, ToCatch(h))
            /\ UNCHANGED timer
  /\ UNCHANGED <<matchData, alive, nthreads, disclosed, lastSub, removedBy, cap, uncaught>>

\* a rejection that no catch block sees rejects the promise of the async handler
Escapes(ok) == ~ok

\* lines 76, 86, 100, 125, 128, 136, 143, 146: a returned reply settled; its
\* rejection is the rejection of the handler's promise
ReturnedReplyDone(h, ok) ==
  /\ Running
  /\ h \in Suspended /\ h.kind = "interaction" /\ h.pc \in ReturnedPcs
  /\ inflight' = Resume(h)
  /\ uncaught' = Escapes(ok)
  /\ UNCHANGED <<matchData, timer, alive, nthreads, disclosed, lastSub, removedBy, cap>>

\* lines 161-172: the failure notice of the outer catch settled (a failure is swallowed)
CatchReplyDone(h, ok) ==
  /\ Running
  /\ h \in Suspended /\ h.kind = "interaction" /\ h.pc \in {166, 168}
  /\ inflight' = Resume(h)
  /\ UNCHANGED <<matchData, timer, alive, nthreads, disclosed, lastSub, removedBy, cap, uncaught>>

\* ---------------------------------------------------------------- /submit
\* a slot selection with the two slots exchanged
SlotWriteSwapped(data, user, choice) ==
  IF user = data.ids[1]
    THEN [data EXCEPT !.playerB = choice]
    ELSE [data EXCEPT !.playerA = choice]

\* lines 132-133: the slot a /submit writes
SlotWrite(data, user, choice) ==
  IF user = data.ids[1]
    THEN [data EXCEPT !.playerA = choice]
    ELSE [data EXCEPT !.playerB = choice]

\* a participant test that lets everybody through
IsParticipantAnyone(data, user) == TRUE

\* lines 127 and 182: data.ids.includes(id)
IsParticipant(data, user) == user \in {data.ids[1], data.ids[2]}

\* lines 123-136: the line of the reply a /submit by user in channel ch returns
SubmitPc(m, ch, user) ==
  IF ~MapHas(m, ch) THEN 125
  ELSE IF ~IsParticipant(m[ch], user) THEN 128
  ELSE 136

\* lines 123-134: the table a /submit leaves
SubmitTable(m, ch, user, choice) ==
  IF SubmitPc(m, ch, user) = 136
    THEN MapSet(m, ch, SlotWrite(m[ch], user, choice))
    ELSE m

\* lines 121-137: the whole handler for commandName 'submit', up to its returned reply
Submit(ch, user, choice) ==
  /\ Running
  /\ CanSuspend
  /\ Reachable(ch)
  /\ matchData' = SubmitTable(matchData, ch, user, choice)
  /\ lastSub' = IF SubmitPc(matchData, ch, user) = 136
                  THEN [lastSub EXCEPT ![ch][user] = choice]
                  ELSE lastSub
  /\ inflight' = Suspend(Reply(SubmitPc(matchData, ch, user), ch))
  /\ UNCHANGED <<timer, alive, nthreads, disclosed, removedBy, cap, uncaught>>

\* ---------------------------------------------------------------- /reveal
\* a readiness check that looks at the first slot only
ReadyOneSided(data) == Truthy(data.playerA)

\* line 145: the readiness check of /reveal
Ready(data) == ~(~Truthy(data.playerA) \/ ~Truthy(data.playerB))

\* lines 149-155: the embed holds the two slots, Player A first
Embed(data) == <<data.playerA, data.playerB>>

\* history: what the participants, in the order of ids, submitted last
LastPair(ch) == <<lastSub[ch][matchData[ch].ids[1]], lastSub[ch][matchData[ch].ids[2]]>>

\* reveals of a thread that are suspended at their channel send
Sending(ch) == {h \in Suspended : h.kind = "interaction" /\ h.pc = 157 /\ h.ch = ch}

\* a reveal whose lookup and slot test are one test: a missing record answers Incomplete
RevealPcOneTest(m, ch, user) ==
  IF MapHas(m, ch) /\ Ready(m[ch]) THEN 157 ELSE 146

\* a reveal that only the two players may ask for
RevealPcPlayersOnly(m, ch, user) ==
  IF ~MapHas(m, ch) THEN 143
  ELSE IF ~IsParticipant(m[ch], user) THEN 128
  ELSE IF ~Ready(m[ch]) THEN 146
  ELSE 157

\* lines 141-157: the line a /reveal by user in channel ch gets to: a returned
\* reply (143, 146) or the channel send (157); interaction.user is never read
RevealPc(m, ch, user) ==
  IF ~MapHas(m, ch) THEN 143
  ELSE IF ~Ready(m[ch]) THEN 146
  ELSE 157

\* lines 139-157: the handler for commandName 'reveal', up to its channel send
Reveal(ch, user) ==
  /\ Running
  /\ CanSuspend
  /\ Reachable(ch)
  /\ IF RevealPc(matchData, ch, user) # 157
       THEN /\ inflight' = Suspend(Reply(RevealPc(matchData, ch, user), ch))
       ELSE /\ disclosed[ch].n + BagCardinality([h \in Sending(ch) |-> CopiesIn(h, inflight)]) < MaxDisclosed
            /\ inflight' = Suspend(Handler("interaction", 157, ch, <<user>>, Embed(matchData[ch]), LastPair(ch), FALSE))
  /\ UNCHANGED <<matchData, timer, alive, nthreads, disclosed, lastSub, removedBy, cap, uncaught>>

\* lines 157-158: the channel send settled: the embed is in the channel; the reply is issued
RevealSendDone(h, ok) ==
  /\ Running
  /\ h \in Suspended /\ h.kind = "interaction" /\ h.pc = 157
  /\ ok => h.ch \in alive
  /\ IF ok
       THEN /\ disclosed' = [disclosed EXCEPT ![h.ch] = [n |-> @.n + 1, embed |-> h.embed, want |-> h.want]]
            /\ inflight' = Replace(h, [h EXCEPT !.pc = 158, !.ids = NoIds, !.embed = NoEmbed, !.want = NoEmbed])
       ELSE /\ inflight' = Replace(h, ToCatch(h))
            /\ UNCHANGED disclosed
  /\ UNCHANGED <<matchData, timer, alive, nthreads, lastSub, removedBy, cap, uncaught>>

\* history: the handler whose Map.delete found the record
Remover(ch, who) ==
  IF MapHas(matchData, ch) THEN [removedBy EXCEPT ![ch] = who] ELSE removedBy

\* lines 158-160: the reply settled; the record is deleted
RevealReplyDone(h, ok) ==
  /\ Running
  /\ h \in Suspended /\ h.kind = "interaction" /\ h.pc = 158
  /\ IF ok
       THEN /\ matchData' = MapDelete(matchData, h.ch)
            /\ removedBy' = Remover(h.ch, "reveal")
            /\ inflight' = Resume(h)
       ELSE /\ inflight' = Replace(h, ToCatch(h))
            /\ UNCHANGED <<matchData, removedBy>>
  /\ UNCHANGED <<timer, alive, nthreads, disclosed, lastSub, cap, uncaught>>

\* ----------------------------------------------------------- messageCreate
\* lines 183-187: the slot a raw message writes
\* a slot write of the raw path that knows the first slot only
MessageSlotWriteFirstSlot(data, author, content) ==
  IF author \in {data.ids[1], data.ids[2]}
    THEN [data EXCEPT !.playerA = content]
    ELSE data

MessageSlotWrite(data, author, content) ==
  IF author = data.ids[1]
    THEN [data EXCEPT !.playerA = content]
    ELSE IF author = data.ids[2]
      THEN [data EXCEPT !.playerB = content]
      ELSE data

\* lines 178-188: the table a raw message of a user leaves
MessageTable(m, ch, author, content) ==
  IF MapHas(m, ch) /\ IsParticipant(m[ch], author)
    THEN MapSet(m, ch, MessageSlotWrite(m[ch], author, content))
    ELSE m

\* lines 175-191: the messageCreate handler, up to its msg.delete
MessageCreate(ch, author, content, bot) ==
  /\ Running
  /\ Reachable(ch)
  /\ IF bot
       THEN UNCHANGED <<matchData, lastSub, inflight>>
       ELSE IF ~MapHas(matchData, ch)
         THEN UNCHANGED <<matchData, lastSub, inflight>>
         ELSE IF ~IsParticipant(matchData[ch], author)
           THEN UNCHANGED <<matchData, lastSub, inflight>>
           ELSE /\ CanSuspend
                /\ matchData' = MessageTable(matchData, ch, author, content)
                /\ lastSub' = [lastSub EXCEPT ![ch][author] = content]
                /\ inflight' = Suspend(Handler("message", 191, ch, NoIds, NoEmbed, NoEmbed, FALSE))
  /\ UNCHANGED <<timer, alive, nthreads, disclosed, removedBy, cap, uncaught>>

\* lines 191-195: msg.delete settled; one of the two notices is issued
MessageDeleteDone(h, ok) ==
  /\ Running
  /\ h \in Suspended /\ h.kind = "message" /\ h.pc = 191
  /\ ok => h.ch \in alive
  /\ inflight' = Replace(h, [h EXCEPT !.pc = IF ok THEN 192 ELSE 195])
  /\ UNCHANGED <<matchData, timer, alive, nthreads, disclosed, lastSub, removedBy, cap, uncaught>>

\* lines 192-195: the hidden-submission notice settled; a failure enters the catch
HiddenNoticeDone(h, ok) ==
  /\ Running
  /\ h \in Suspended /\ h.kind = "message" /\ h.pc = 192
  /\ ok => h.ch \in alive
  /\ inflight' = IF ok THEN Resume(h) ELSE Replace(h, [h EXCEPT !.pc = 195])
  /\ UNCHANGED <<matchData, timer, alive, nthreads, disclosed, lastSub, removedBy, cap, uncaught>>

\* lines 193-197: the could-not-delete notice settled; nothing catches its failure
FailureNoticeDone(h, ok) ==
  /\ Running
  /\ h \in Suspended /\ h.kind = "message" /\ h.pc = 195
  /\ ok => h.ch \in alive
  /\ inflight' = Resume(h)
  /\ uncaught' = Escapes(ok)
  /\ UNCHANGED <<matchData, timer, alive, nthreads, disclosed, lastSub, removedBy, cap>>

\* ------------------------------------------------------------------ expiry
\* lines 113-115: the timer fires; thread.delete is issued
ExpiryFire(t) ==
  /\ Running
  /\ CanSuspend
  /\ timer[t] = "armed"
  /\ timer' = [timer EXCEPT ![t] = "fired"]
  /\ inflight' = Suspend(Handler("expiry", 115, t, NoIds, NoEmbed, NoEmbed, FALSE))
  /\ UNCHANGED <<matchData, alive, nthreads, disclosed, lastSub, removedBy, cap, uncaught>>

\* lines 115-117: thread.delete settled (a failure is swallowed); the record is deleted
ThreadDeleteDone(h, ok) ==
  /\ Running
  /\ h \in Suspended /\ h.kind = "expiry" /\ h.pc = 115
  /\ ok => h.ch \in alive
  /\ alive' = IF ok THEN alive \ {h.ch} ELSE alive
  /\ matchData' = MapDelete(matchData, h.ch)
  /\ removedBy' = Remover(h.ch, "expiry")
  /\ inflight' = Resume(h)
  /\ UNCHANGED <<timer, nthreads, disclosed, lastSub, cap, uncaught>>

\* ------------------------------------------------------------------- system
Next ==
  \/ \E s \in Starters, o \in Opponents, g \in BOOLEAN : StartMatch(s, o, g)
  \/ \E h \in Suspended, ok \in BOOLEAN, tc \in BOOLEAN : DeferReplyDone(h, ok, tc)
  \/ \E h \in Suspended, ok \in BOOLEAN : ThreadsCreateDone(h, ok)
  \/ \E h \in Suspended, ok \in BOOLEAN : MembersAddStarterDone(h, ok)
  \/ \E h \in Suspended, ok \in BOOLEAN : MembersAddOpponentDone(h, ok)
  \/ \E h \in Suspended, ok \in BOOLEAN : EditReplyDone(h, ok)
  \/ \E h \in Suspended, ok \in BOOLEAN : ThreadSendDone(h, ok)
  \/ \E h \in Suspended, ok \in BOOLEAN : ReturnedReplyDone(h, ok)
  \/ \E h \in Suspended, ok \in BOOLEAN : CatchReplyDone(h, ok)
  \/ \E ch \in Channels, u \in Users, c \in CmdChoices : Submit(ch, u, c)
  \/ \E ch \in Channels, u \in Revealers : Reveal(ch, u)
  \/ \E h \in Suspended, ok \in BOOLEAN : RevealSendDone(h, ok)
  \/ \E h \in Suspended, ok \in BOOLEAN : RevealReplyDone(h, ok)
  \/ \E ch \in Channels, u \in Users, c \in Choices, b \in BOOLEAN : MessageCreate(ch, u, c, b)
  \/ \E h \in Suspended, ok \in BOOLEAN : MessageDeleteDone(h, ok)
  \/ \E h \in Suspended, ok \in BOOLEAN : HiddenNoticeDone(h, ok)
  \/ \E h \in Suspended, ok \in BOOLEAN : FailureNoticeDone(h, ok)
  \/ \E t \in ThreadIds : ExpiryFire(t)
  \/ \E h \in Suspended, ok \in BOOLEAN : ThreadDeleteDone(h, ok)

Spec == Init /\ [][Next]_vars

\* Two matches side by side: two threads are created, and one handler at a time
\* is suspended in the middle of its work.
InitTwo ==
  /\ matchData = << >>
  /\ timer = [t \in ThreadIds |-> "none"]
  /\ alive = {}
  /\ nthreads = 0
  /\ inflight = EmptyBag
  /\ disclosed = [t \in ThreadIds |-> [n |-> 0, embed |-> NoEmbed, want |-> NoEmbed]]
  /\ lastSub = [t \in ThreadIds |-> [u \in Users |-> null]]
  /\ removedBy = [t \in ThreadIds |-> "none"]
  /\ cap = [threads |-> 2, inflight |-> 1]
  /\ uncaught = FALSE

\* the inputs of the two matches: each is of players 1 and 2, and one value is submitted
TwoOpponents == {2}

TwoChoices == {"X"}

NextTwo ==
  \/ \E s \in Starters, o \in TwoOpponents, g \in BOOLEAN : StartMatch(s, o, g)
  \/ \E h \in Suspended, ok \in BOOLEAN, tc \in BOOLEAN : DeferReplyDone(h, ok, tc)
  \/ \E h \in Suspended, ok \in BOOLEAN : ThreadsCreateDone(h, ok)
  \/ \E h \in Suspended, ok \in BOOLEAN : MembersAddStarterDone(h, ok)
  \/ \E h \in Suspended, ok \in BOOLEAN : MembersAddOpponentDone(h, ok)
  \/ \E h \in Suspended, ok \in BOOLEAN : EditReplyDone(h, ok)
  \/ \E h \in Suspended, ok \in BOOLEAN : ThreadSendDone(h, ok)
  \/ \E h \in Suspended, ok \in BOOLEAN : ReturnedReplyDone(h, ok)
  \/ \E h \in Suspended, ok \in BOOLEAN : CatchReplyDone(h, ok)
  \/ \E ch \in Channels, u \in Users, c \in TwoChoices : Submit(ch, u, c)
  \/ \E ch \in Channels, u \in Revealers : Reveal(ch, u)
  \/ \E h \in Suspended, ok \in BOOLEAN : RevealSendDone(h, ok)
  \/ \E h \in Suspended, ok \in BOOLEAN : RevealReplyDone(h, ok)
  \/ \E ch \in Channels, u \in Users, c \in TwoChoices, b \in BOOLEAN : MessageCreate(ch, u, c, b)
  \/ \E h \in Suspended, ok \in BOOLEAN : MessageDeleteDone(h, ok)
  \/ \E h \in Suspended, ok \in BOOLEAN : HiddenNoticeDone(h, ok)
  \/ \E h \in Suspended, ok \in BOOLEAN : FailureNoticeDone(h, ok)
  \/ \E t \in ThreadIds : ExpiryFire(t)
  \/ \E h \in Suspended, ok \in BOOLEAN : ThreadDeleteDone(h, ok)

SpecTwo == InitTwo /\ [][NextTwo]_vars

\* ------------------------------------------------------------------ claims
\* the record of thread t is in the table
Present(t) == MapHas(matchData, t)

\* the step suspends one more interaction handler at the reply of line pc in channel ch
Answers(pc, ch) == inflight' = Suspend(Reply(pc, ch))

\* the step sends a reveal embed to thread t
Discloses(t) == disclosed'[t].n > disclosed[t].n

\* the step changes what a request handler can change before its first await:
\* one more handler is suspended, or the table is another
Entered == BagCardinality(inflight') > BagCardinality(inflight) \/ matchData' # matchData

\* C1: at most one disclosure is ever emitted for a match, and every /reveal handled
\* after a disclosure of its thread answers that the thread is no valid match
\* (NoSuchMatch, the reply of line 143).
C1_ExactlyOnce ==
  [][\A t \in ThreadIds :
       /\ disclosed'[t].n <= 1
       /\ \A u \in Users : (Reveal(t, u) /\ disclosed[t].n >= 1) => Answers(143, t)]_vars

\* C2: a reveal embed is sent only by the channel send of a /reveal, and a /reveal
\* gets to its channel send only when it is handled while both slots of the record
\* hold submitted values; no /submit, raw message or expiry step sends one, and a
\* /reveal handled while a slot is absent answers Incomplete (line 146) instead.
C2_OnlyExplicitReveal ==
  [][\A t \in ThreadIds :
       /\ Discloses(t) =>
            /\ \E h \in Suspended : h.pc = 157 /\ h.ch = t /\ RevealSendDone(h, TRUE)
            /\ \A u \in Users, c \in Choices :
                 ~Submit(t, u, c) /\ ~MessageCreate(t, u, c, FALSE) /\ ~MessageCreate(t, u, c, TRUE)
            /\ ~ExpiryFire(t)
            /\ \A h \in Suspended, ok \in BOOLEAN : ~ThreadDeleteDone(h, ok)
       /\ \A h \in BagToSet(inflight') :
            (h.pc = 157 /\ h.ch = t /\ CopiesIn(h, inflight') > CopiesIn(h, inflight)) =>
               /\ \E u \in Users : Reveal(t, u)
               /\ Present(t)
               /\ matchData[t].playerA # null /\ matchData[t].playerB # null
               /\ h.embed[1] # null /\ h.embed[2] # null
       /\ (Present(t) /\ (matchData[t].playerA = null \/ matchData[t].playerB = null)) =>
            \A u \in Users : Reveal(t, u) => (Answers(146, t) /\ UNCHANGED disclosed)]_vars

\* C2 witness: a reveal embed has been sent to thread 1, and the record is still in the table
C2_Witness == disclosed[1].n = 1 /\ Present(1)

\* C3: when a /reveal and the expiry callback of the same thread interleave, the
\* reveal that sent its embed finds the record still present at its own delete
\* (line 159), and no embed is sent once the record is gone.
C3_RevealExpiryRace ==
  [][\A h \in Suspended :
       /\ (RevealReplyDone(h, TRUE) /\ disclosed[h.ch].n = 1) => Present(h.ch)
       /\ (RevealSendDone(h, TRUE) /\ disclosed[h.ch].n = 0) => Present(h.ch)]_vars

\* C4: once the expiry timer of a thread has fired, every /submit and /reveal
\* handled in it answers NoSuchMatch (lines 125 and 143) and a raw message
\* records nothing.
C4_AfterExpiryFired ==
  [][\A t \in ThreadIds : timer[t] = "fired" =>
       /\ \A u \in Users, c \in CmdChoices : Submit(t, u, c) => Answers(125, t)
       /\ \A u \in Users : Reveal(t, u) => Answers(143, t)
       /\ \A u \in Users, c \in Choices :
            MessageCreate(t, u, c, FALSE) => UNCHANGED <<matchData, inflight>>]_vars

\* C5: once a reveal embed has been sent to a thread, every /submit handled in it
\* answers NoSuchMatch (line 125) and every raw message records nothing.
C5_SubmitAfterDisclosure ==
  [][\A t \in ThreadIds : disclosed[t].n >= 1 =>
       /\ \A u \in Users, c \in CmdChoices : Submit(t, u, c) => Answers(125, t)
       /\ \A u \in Users, c \in Choices :
            MessageCreate(t, u, c, FALSE) => UNCHANGED <<matchData, inflight>>]_vars

\* the two participants of the record of thread t
Participants(t) == {matchData[t].ids[1], matchData[t].ids[2]}

\* C6: the embed a reveal sends holds, in the order of ids, the value each
\* participant submitted last before the /reveal was handled; an accepted
\* submission (command or raw message) writes its value into the submitter's slot
\* and leaves the other slot and the participant pair as they were.
C6_LastWriteWins ==
  [][\A t \in ThreadIds :
       /\ Discloses(t) => disclosed'[t].embed = disclosed'[t].want
       /\ (Entered /\ Present(t)) =>
            \A u \in Participants(t), c \in Choices :
              (Submit(t, u, c) \/ MessageCreate(t, u, c, FALSE)) =>
                 /\ Present(t)'
                 /\ matchData'[t].ids = matchData[t].ids
                 /\ IF u = matchData[t].ids[1]
                      THEN /\ matchData'[t].playerA = c
                           /\ matchData'[t].playerB = matchData[t].playerB
                      ELSE /\ matchData'[t].playerB = c
                           /\ matchData'[t].playerA = matchData[t].playerA]_vars

\* C6 witness: after the first participant submitted "Y" and the second "X", a
\* reveal sent the pair ("Y", "X")
C6_Witness ==
  /\ disclosed[1].n = 1
  /\ disclosed[1].embed = <<"Y", "X">>
  /\ lastSub[1][1] = "Y" /\ lastSub[1][2] = "X"

C8_EmptyValueIsSubmitted ==
  [][\A t \in ThreadIds, u \in Users :
       (Present(t)
          /\ matchData[t].ids[1] # matchData[t].ids[2]
          /\ lastSub[t][matchData[t].ids[1]] # null
          /\ lastSub[t][matchData[t].ids[2]] # null
          /\ Reveal(t, u)) => ~Answers(146, t)]_vars

\* C9: an expiry is armed for every record in the table: the timer of its thread
\* is set, or the start-match that inserted it is still on its way to line 113.
C9_ExpiryArmedForEveryRecord ==
  \A t \in ThreadIds :
    Present(t) =>
      \/ timer[t] # "none"
      \/ \E h \in Suspended : h.kind = "interaction" /\ h.ch = t /\ h.pc \in {109, 110}

\* C10: the state change is committed before the external effect is attempted: the
\* slot is written when a /submit issues its acknowledgement, the record is
\* removed when a /reveal issues its channel send and when the expiry callback
\* issues the thread deletion, and a failed reply leaves no disclosed match in
\* the table.
C10_CommitBeforeEffect ==
  [][\A t \in ThreadIds :
       /\ \A u \in Users, c \in CmdChoices :
            (Submit(t, u, c) /\ Answers(136, t)) =>
               c \in {matchData'[t].playerA, matchData'[t].playerB}
       /\ \A h \in BagToSet(inflight') :
            (h.pc = 157 /\ h.ch = t /\ CopiesIn(h, inflight') > CopiesIn(h, inflight)) =>
               ~Present(t)'
       /\ ExpiryFire(t) => ~Present(t)'
       /\ (\E h \in Suspended : h.ch = t /\ RevealReplyDone(h, FALSE)) => ~Present(t)']_vars

\* the key ch was never put into the table
NeverCreated(ch) == ch = ParentChannel \/ (~Present(ch) /\ removedBy[ch] = "none")

\* C11: while a match has its record, a /submit of a user who is not one of the
\* record's two ids is answered NotAParticipant (line 128), a raw message of such a
\* user starts no handler and posts nothing, and both leave the table (slots and
\* ids of every record) unchanged.
C11_NonParticipantRejected ==
  [][Entered => \A t \in ThreadIds, u \in Users, c \in Choices :
       (Present(t) /\ u \notin Participants(t)) =>
          /\ Submit(t, u, c) => (Answers(128, t) /\ UNCHANGED matchData)
          /\ MessageCreate(t, u, c, FALSE) => UNCHANGED <<matchData, inflight>>]_vars

\* C11 witness: user 3 was answered NotAParticipant in thread 1, whose record of
\* players 1 and 2 holds the first player's value and an empty second slot
C11_Witness ==
  /\ Present(1)
  /\ matchData[1].ids = <<1, 2>>
  /\ matchData[1].playerA = "X" /\ matchData[1].playerB = null
  /\ Reply(128, 1) \in Suspended

\* C12: in a channel whose key was never put into the table (the parent channel, a
\* thread whose start handler has not yet reached line 107), /submit is answered
\* NoSuchMatch (line 125), /reveal is answered NoSuchMatch (line 143) and sends no
\* embed, a raw message starts no handler, and the table is unchanged.
C12_NoSuchMatch ==
  [][Entered => \A ch \in Channels, u \in Users, c \in Choices :
       NeverCreated(ch) =>
          /\ Submit(ch, u, c) => (Answers(125, ch) /\ UNCHANGED matchData)
          /\ Reveal(ch, u) => (Answers(143, ch) /\ UNCHANGED <<matchData, disclosed>>)
          /\ MessageCreate(ch, u, c, FALSE) => UNCHANGED <<matchData, inflight>>]_vars

\* C12 witness: thread 1 exists and its start handler is still adding members, a
\* /reveal in it was answered NoSuchMatch and the table is still empty
C12_Witness ==
  /\ 1 \in alive /\ NeverCreated(1)
  /\ Reply(143, 1) \in Suspended
  /\ DOMAIN matchData = {}

\* C13: no handler's promise rejects with nothing to catch it, whichever awaited
\* call of an external collaborator fails.
C13_EveryFailureCaught == uncaught = FALSE

\* the table with one and the same value in place of every submitted value
SameValues(m) ==
  [t \in DOMAIN m |->
     [m[t] EXCEPT !.playerA = IF @ = null THEN null ELSE "X",
                  !.playerB = IF @ = null THEN null ELSE "X"]]

\* the handler of a raw message, suspended at msg.delete: it holds no value
Scrubbing(ch) == Handler("message", 191, ch, NoIds, NoEmbed, NoEmbed, FALSE)

\* C14: as long as no embed was sent to a thread, what the bot answers there does
\* not depend on the values submitted: a /submit and a /reveal get the reply they
\* would get from the table with other values in the filled slots (a /reveal
\* that discloses would disclose there too), and a raw message starts the same
\* scrub, whose notices are fixed texts, whatever its content.
C14_OutputsHideValues ==
  [][Entered => \A t \in ThreadIds, u \in Users, c \in Choices :
       (Present(t) /\ disclosed[t].n = 0) =>
          /\ Submit(t, u, c) => Answers(SubmitPc(SameValues(matchData), t, u), t)
          /\ Reveal(t, u) =>
                RevealPc(matchData, t, u) = RevealPc(SameValues(matchData), t, u)
          /\ MessageCreate(t, u, c, FALSE) =>
                inflight' \in {inflight, Suspend(Scrubbing(t))}]_vars

\* C15: every record put into or kept in the table has two distinct ids, and a
\* record that stays in the table keeps its ids.
C15_TwoDistinctFixedParticipants ==
  [][\A t \in ThreadIds :
       Present(t)' =>
          /\ matchData'[t].ids[1] # matchData'[t].ids[2]
          /\ Present(t) => matchData'[t].ids = matchData[t].ids]_vars

\* C16: a /submit and a raw message of a user (no bot) with the same channel,
\* sender and value leave the same table: each handler leaves the table the
\* other one would leave.
C16_SameSubmitContract ==
  [][Entered => \A ch \in Channels, u \in Users, c \in Choices :
       /\ Submit(ch, u, c) => matchData' = MessageTable(matchData, ch, u, c)
       /\ MessageCreate(ch, u, c, FALSE) => matchData' = SubmitTable(matchData, ch, u, c)]_vars

\* C16 witness: the second player's empty raw message was recorded in the second
\* slot of thread 1 and its scrub is under way
C16_Witness ==
  /\ Present(1)
  /\ matchData[1].ids = <<1, 2>>
  /\ matchData[1].playerA = "X" /\ matchData[1].playerB = ""
  /\ Scrubbing(1) \in Suspended

\* one more handler is suspended at the could-not-delete notice of line 195
PostsFailureNotice ==
  \E g \in BagToSet(inflight') :
     g.kind = "message" /\ g.pc = 195 /\ CopiesIn(g, inflight') > CopiesIn(g, inflight)

\* C17: a raw message's slot write stands whether msg.delete resolves or rejects,
\* and the could-not-delete notice is sent exactly by the handlers whose
\* msg.delete rejected: when msg.delete rejects, and at no other step.
C17_NoticeIffDeleteFailed ==
  [][/\ \A h \in Suspended :
          /\ MessageDeleteDone(h, FALSE) => (PostsFailureNotice /\ UNCHANGED matchData)
          /\ MessageDeleteDone(h, TRUE) => UNCHANGED matchData
     /\ PostsFailureNotice => \E h \in Suspended : MessageDeleteDone(h, FALSE)]_vars

\* the step puts in, takes out or alters the record of key k
Changed(k) == Present(k) # Present(k)' \/ (Present(k) /\ matchData'[k] # matchData[k])

\* the step resumes the suspended handler h with the outcome of its awaited call
Resumes(h) ==
  \E ok \in BOOLEAN :
     \/ \E tc \in BOOLEAN : DeferReplyDone(h, ok, tc)
     \/ ThreadsCreateDone(h, ok) \/ MembersAddStarterDone(h, ok)
     \/ MembersAddOpponentDone(h, ok) \/ EditReplyDone(h, ok) \/ ThreadSendDone(h, ok)
     \/ ReturnedReplyDone(h, ok) \/ CatchReplyDone(h, ok)
     \/ RevealSendDone(h, ok) \/ RevealReplyDone(h, ok)
     \/ MessageDeleteDone(h, ok) \/ HiddenNoticeDone(h, ok) \/ FailureNoticeDone(h, ok)
     \/ ThreadDeleteDone(h, ok)

\* C18: a step of a request, of a handler or of an expiry callback of one channel
\* leaves the record of every other key as it is (present or not, ids and both
\* slots), and the insert of a start-match (line 107) goes to a key that has no
\* record, so no record that is present is ever replaced or reset by it.
C18_IsolatedByChannel ==
  [][/\ matchData' # matchData =>
          /\ \A ch \in Channels, u \in Users, c \in Choices, b \in BOOLEAN :
               (Submit(ch, u, c) \/ Reveal(ch, u) \/ MessageCreate(ch, u, c, b)) =>
                  \A k \in ThreadIds \ {ch} : ~Changed(k)
          /\ \A s \in Starters, o \in Opponents, g \in BOOLEAN :
               StartMatch(s, o, g) => \A k \in ThreadIds : ~Changed(k)
          /\ \A t \in ThreadIds :
               ExpiryFire(t) => \A k \in ThreadIds \ {t} : ~Changed(k)
          /\ \A h \in Suspended :
               Resumes(h) => \A k \in ThreadIds \ {h.ch} : ~Changed(k)
     /\ \A h \in Suspended :
          (\E ok \in BOOLEAN : MembersAddOpponentDone(h, ok)) =>
             (~Present(h.ch) /\ matchData'[h.ch] = NewMatch(h.ids))]_vars

\* C18 witness: the expiry callback of thread 1 removed its record while the
\* record of thread 2 keeps its ids and the first player's value
C18_Witness ==
  /\ ~Present(1) /\ removedBy[1] = "expiry"
  /\ Present(2)
  /\ matchData[2] = [playerA |-> "X", playerB |-> null, ids |-> <<1, 2>>]

\* C19: what a /reveal does is the same whoever issues it: it gets to the same
\* line for every user, and issued by a user who is not one of the record's two
\* ids while both slots hold values it sends the embed of the two values, whose
\* send discloses them; the reply that follows removes the record (C7).
C19_RevealByAnyone ==
  [][\A t \in ThreadIds, u \in Users :
       /\ (Entered /\ Reveal(t, u)) =>
            /\ \A v \in Users : RevealPc(matchData, t, v) = RevealPc(matchData, t, u)
            /\ (Present(t) /\ u \notin Participants(t) /\ Ready(matchData[t])) =>
                  \E h \in BagToSet(inflight') :
                     /\ h.pc = 157 /\ h.ch = t /\ h.ids = <<u>>
                     /\ h.embed = <<matchData[t].playerA, matchData[t].playerB>>
                     /\ CopiesIn(h, inflight') = CopiesIn(h, inflight) + 1
       /\ (Discloses(t) /\ Present(t) /\ u \notin Participants(t)) =>
            \A h \in Suspended :
               (h.pc = 157 /\ h.ch = t /\ h.ids = <<u>> /\ RevealSendDone(h, TRUE)) =>
                  disclosed'[t].embed = h.embed]_vars

\* C19 witness: user 3, who is not in the match of players 1 and 2, asked for the
\* reveal in thread 1, and the embed of the two values is being sent
C19_Witness ==
  /\ Present(1)
  /\ matchData[1].ids = <<1, 2>>
  /\ \E h \in Suspended :
        /\ h.pc = 157 /\ h.ch = 1 /\ h.ids = <<3>>
        /\ h.embed = <<matchData[1].playerA, matchData[1].playerB>>

====
